---- MODULE Spec2Model ----
(***************************************************************************)
(* Model of bridge.RPC (src/bridge/rpc.go): the call/return correlation    *)
(* engine.  Call contexts each run RPC.Call once; each Return runs once, on *)
(* a transport context or inline in the Handler of a Call.  Every          *)
(* statement of the two methods that touches                               *)
(* shared state (the RWMutex, the returns map, a result channel) is one    *)
(* step.  An unrecovered panic aborts the process: no step is taken after. *)
(***************************************************************************)
EXTENDS Integers, Sequences, FiniteSets, TLC

\* ---- bounds ----
NumCalls == 2
NumReturns == 2

\* ---- program constants ----
\* capacity of the result channel: make(chan rpcReturn, 1)
ChanCap == 1

Callers == 1..NumCalls
Returners == 1..NumReturns
\* the identifiers uuid.New() can hand out to the Calls of one run
IDs == 1..NumCalls

Nil == "nil"
NoChan == 0
NoID == 0
NoOne == 0

Q == "\""
\* json encoding of a string value (what the foreign side puts in Output)
Quote(s) == <<Q>> \o s \o <<Q>>
Hi == <<"h", "i">>
Yo == <<"y", "o">>
Values == {Hi, Yo}
EmptyOut == <<>>
\* the Output texts a reply may carry: empty, two JSON strings, one non-JSON
Payloads == {EmptyOut, Quote(Hi), Quote(Yo), Hi}
\* the errString texts a reply may carry
ErrTexts == {"", "boom"}
\* the replies the foreign side sends: every output without an error text,
\* and an error text with an empty and with a non-empty output
Replies ==
    {[out |-> o, errString |-> ""] : o \in Payloads}
        \cup {[out |-> o, errString |-> "boom"] : o \in {EmptyOut, Quote(Hi)}}
\* the value the output target holds before Call
Untouched == <<"o", "l", "d">>
\* inputs of Call: one json.Marshal accepts, one it rejects (a func value)
Inputs == {"hi", "func"}
MarshalErr == "json: unsupported type"
HandlerErr == "handler failed"
UnmarshalErr == "invalid character"

\* json.Marshal(Call{Method, Input, ReturnID})
Marshal(method, in, id) ==
    IF in = "func"
    THEN [err |-> MarshalErr, call |-> <<>>]
    ELSE [err |-> Nil, call |-> <<method, in, id>>]

IsJSONString(d) ==
    /\ Len(d) >= 2
    /\ d[1] = Q
    /\ d[Len(d)] = Q
    /\ \A i \in 2..(Len(d) - 1) : d[i] # Q

\* json.Unmarshal([]byte(data), out) for a *string target holding old
UnmarshalRaw(data, old) == [err |-> Nil, out |-> data]
Unmarshal(data, old) ==
    IF IsJSONString(data)
    THEN [err |-> Nil, out |-> SubSeq(data, 2, Len(data) - 1)]
    ELSE [err |-> UnmarshalErr, out |-> old]

\* errors.New(errString) when errString is not empty, else the nil error
ErrorOf(errString) == IF errString # "" THEN errString ELSE Nil

\* the zero rpcReturn, and "no result received yet"
NoRet == [Output |-> EmptyOut, Error |-> Nil, by |-> NoOne]

VARIABLES
    pc,         \* position of each Call context
    returnID,   \* Call's local returnID
    call,       \* Call's local call: the serialized envelope
    out,        \* the value pointed to by Call's out
    rpcRet,     \* Call's local rpcRet (by: the Return context that sent it)
    got,        \* whether the Call has received from its channel
    err,        \* the error Call returned
    nextID,     \* source of fresh uuids
    returns,    \* r.returns: id -> channel (a channel is named by its maker)
    chanBuf,    \* buffer of each result channel
    chanClosed, \* whether each result channel is closed
    mutexW,     \* context holding r.mutex for writing
    mutexR,     \* Return contexts holding r.mutex for reading
    sent,       \* envelopes the Handler has been invoked with
    rpc,        \* position of each Return context
    args,       \* Return's arguments retID, out, errString
    host,       \* the Call whose Handler invoked this Return inline, if any
    reg,        \* whether retID was registered when Return was invoked
    rpcRetC,    \* Return's local rpcRetC
    ok,         \* Return's local ok
    panicked    \* "" or the message of the panic that aborted the process

vars == <<pc, returnID, call, out, rpcRet, got, err, nextID, returns, chanBuf,
          chanClosed, mutexW, mutexR, sent, rpc, args, host, reg,
          rpcRetC, ok, panicked>>

callVars == <<pc, returnID, call, out, rpcRet, got, err, nextID, sent>>
retVars == <<rpc, args, host, reg, rpcRetC, ok>>
chanVars == <<chanBuf, chanClosed>>
lockVars == <<mutexW, mutexR>>

NoArgs == [retID |-> NoID, out |-> EmptyOut, errString |-> ""]

Init ==
    /\ pc = [c \in Callers |-> "idle"]
    /\ returnID = [c \in Callers |-> NoID]
    /\ call = [c \in Callers |-> <<>>]
    /\ out = [c \in Callers |-> Untouched]
    /\ rpcRet = [c \in Callers |-> NoRet]
    /\ got = [c \in Callers |-> FALSE]
    /\ err = [c \in Callers |-> Nil]
    /\ nextID = 1
    /\ returns = <<>>
    /\ chanBuf = [c \in Callers |-> <<>>]
    /\ chanClosed = [c \in Callers |-> FALSE]
    /\ mutexW = NoOne
    /\ mutexR = {}
    /\ sent = {}
    /\ rpc = [r \in Returners |-> "idle"]
    /\ args = [r \in Returners |-> NoArgs]
    /\ host = [r \in Returners |-> NoOne]
    /\ reg = [r \in Returners |-> FALSE]
    /\ rpcRetC = [r \in Returners |-> NoChan]
    /\ ok = [r \in Returners |-> FALSE]
    /\ panicked = ""

Running == panicked = ""

\* a Return invoked inline by the Handler of Call h has not returned yet
InHandler(h) == \E q \in Returners : host[q] = h /\ rpc[q] # "done"

\* ---------------------------------------------------------------- Call ----

\* lines 27-38: fresh id, marshal the envelope, make the channel.  Call
\* contexts are numbered in the order in which they draw their uuid.
CallStartNoReturn(c, in) ==
    /\ Running
    /\ pc[c] = "idle"
    /\ c = nextID
    /\ returnID' = [returnID EXCEPT ![c] = nextID]
    /\ nextID' = nextID + 1
    /\ LET m == Marshal("Echo", in, nextID) IN
        /\ call' = [call EXCEPT ![c] = m.call]
        /\ err' = [err EXCEPT ![c] = m.err]
        /\ pc' = [pc EXCEPT ![c] = "lock"]
    /\ UNCHANGED <<out, rpcRet, got, sent, returns, chanVars, lockVars,
                   retVars, panicked>>
CallStart(c, in) ==
    /\ Running
    /\ pc[c] = "idle"
    /\ c = nextID
    /\ returnID' = [returnID EXCEPT ![c] = nextID]
    /\ nextID' = nextID + 1
    /\ LET m == Marshal("Echo", in, nextID) IN
        /\ call' = [call EXCEPT ![c] = m.call]
        /\ IF m.err # Nil
           THEN /\ err' = [err EXCEPT ![c] = m.err]
                /\ pc' = [pc EXCEPT ![c] = "done"]
           ELSE /\ err' = err
                /\ pc' = [pc EXCEPT ![c] = "lock"]
    /\ UNCHANGED <<out, rpcRet, got, sent, returns, chanVars, lockVars,
                   retVars, panicked>>

\* line 40 / line 53: r.mutex.Lock()
CallLock(c) ==
    /\ Running
    /\ pc[c] \in {"lock", "lock2"}
    /\ mutexW = NoOne
    /\ mutexR = {}
    /\ mutexW' = c
    /\ pc' = [pc EXCEPT ![c] = IF pc[c] = "lock" THEN "insert" ELSE "delete"]
    /\ UNCHANGED <<returnID, call, out, rpcRet, got, err, nextID, sent, returns,
                   chanVars, mutexR, retVars, panicked>>

\* lines 41-44: r.returns[returnID] = rpcRetC
CallInsertSkip(c) ==
    /\ Running
    /\ pc[c] = "insert"
    /\ pc' = [pc EXCEPT ![c] = "unlock"]
    /\ UNCHANGED <<returnID, call, out, rpcRet, got, err, nextID, sent, returns,
                   chanVars, lockVars, retVars, panicked>>
CallInsert(c) ==
    /\ Running
    /\ pc[c] = "insert"
    /\ returns' = [i \in DOMAIN returns \cup {returnID[c]} |->
                     IF i = returnID[c] THEN c ELSE returns[i]]
    /\ pc' = [pc EXCEPT ![c] = "unlock"]
    /\ UNCHANGED <<returnID, call, out, rpcRet, got, err, nextID, sent,
                   chanVars, lockVars, retVars, panicked>>

\* line 45 / line 56: r.mutex.Unlock()
CallUnlockKeep(c) ==
    /\ Running
    /\ pc[c] \in {"unlock", "unlock2"}
    /\ pc' = [pc EXCEPT ![c] = IF pc[c] = "unlock" THEN "send" ELSE "result"]
    /\ UNCHANGED <<returnID, call, out, rpcRet, got, err, nextID, sent, returns,
                   chanVars, lockVars, retVars, panicked>>
CallUnlock(c) ==
    /\ Running
    /\ pc[c] \in {"unlock", "unlock2"}
    /\ mutexW' = IF mutexW = c THEN NoOne ELSE mutexW
    /\ pc' = [pc EXCEPT ![c] = IF pc[c] = "unlock" THEN "send" ELSE "result"]
    /\ UNCHANGED <<returnID, call, out, rpcRet, got, err, nextID, sent, returns,
                   chanVars, mutexR, retVars, panicked>>

\* lines 47-49: r.Handler(string(call)) returns, with an error or not, once
\* every Return it invoked inline has returned
CallSend(c, fails) ==
    /\ Running
    /\ pc[c] = "send"
    /\ ~InHandler(c)
    /\ sent' = sent \cup {call[c]}
    /\ IF fails
       THEN /\ err' = [err EXCEPT ![c] = HandlerErr]
            /\ pc' = [pc EXCEPT ![c] = "done"]
       ELSE /\ err' = err
            /\ pc' = [pc EXCEPT ![c] = "recv"]
    /\ UNCHANGED <<returnID, call, out, rpcRet, got, nextID, returns, chanVars,
                   lockVars, retVars, panicked>>

\* line 51: rpcRet := <-rpcRetC
CallRecvNoWait(c) ==
    /\ Running
    /\ pc[c] = "recv"
    /\ IF chanBuf[c] # <<>>
       THEN /\ rpcRet' = [rpcRet EXCEPT ![c] = Head(chanBuf[c])]
            /\ chanBuf' = [chanBuf EXCEPT ![c] = Tail(chanBuf[c])]
       ELSE /\ rpcRet' = [rpcRet EXCEPT ![c] = NoRet]
            /\ chanBuf' = chanBuf
    /\ got' = [got EXCEPT ![c] = TRUE]
    /\ pc' = [pc EXCEPT ![c] = "lock2"]
    /\ UNCHANGED <<returnID, call, out, err, nextID, sent, returns, chanClosed,
                   lockVars, retVars, panicked>>
CallRecv(c) ==
    /\ Running
    /\ pc[c] = "recv"
    /\ chanBuf[c] # <<>>
    /\ rpcRet' = [rpcRet EXCEPT ![c] = Head(chanBuf[c])]
    /\ chanBuf' = [chanBuf EXCEPT ![c] = Tail(chanBuf[c])]
    /\ got' = [got EXCEPT ![c] = TRUE]
    /\ pc' = [pc EXCEPT ![c] = "lock2"]
    /\ UNCHANGED <<returnID, call, out, err, nextID, sent, returns, chanClosed,
                   lockVars, retVars, panicked>>

\* line 54: delete(r.returns, returnID)
CallDelete(c) ==
    /\ Running
    /\ pc[c] = "delete"
    /\ returns' = [i \in DOMAIN returns \ {returnID[c]} |-> returns[i]]
    /\ pc' = [pc EXCEPT ![c] = "close"]
    /\ UNCHANGED <<returnID, call, out, rpcRet, got, err, nextID, sent,
                   chanVars, lockVars, retVars, panicked>>

\* line 55: close(rpcRetC)
CallClose(c) ==
    /\ Running
    /\ pc[c] = "close"
    /\ chanClosed' = [chanClosed EXCEPT ![c] = TRUE]
    /\ pc' = [pc EXCEPT ![c] = "unlock2"]
    /\ UNCHANGED <<returnID, call, out, rpcRet, got, err, nextID, sent, returns,
                   chanBuf, lockVars, retVars, panicked>>

\* lines 58-65: the error of the reply, else the decoded output, else nil
ResultOutputFirst(ret, old) ==
    IF Len(ret.Output) # 0
    THEN Unmarshal(ret.Output, old)
    ELSE IF ret.Error # Nil
         THEN [err |-> ret.Error, out |-> old]
         ELSE [err |-> Nil, out |-> old]
ResultDecodeAlways(ret, old) ==
    IF ret.Error # Nil
    THEN [err |-> ret.Error, out |-> old]
    ELSE Unmarshal(ret.Output, old)
Result(ret, old) ==
    IF ret.Error # Nil
    THEN [err |-> ret.Error, out |-> old]
    ELSE IF Len(ret.Output) # 0
         THEN Unmarshal(ret.Output, old)
         ELSE [err |-> Nil, out |-> old]

CallResult(c) ==
    /\ Running
    /\ pc[c] = "result"
    /\ LET res == Result(rpcRet[c], out[c]) IN
        /\ err' = [err EXCEPT ![c] = res.err]
        /\ out' = [out EXCEPT ![c] = res.out]
    /\ pc' = [pc EXCEPT ![c] = "done"]
    /\ UNCHANGED <<returnID, call, rpcRet, got, nextID, sent, returns, chanVars,
                   lockVars, retVars, panicked>>

\* -------------------------------------------------------------- Return ----

\* line 70: Return(retID, out, errString) is invoked, either by the transport
\* on a context of its own (h = NoOne) or inline by the Handler of Call h,
\* on h's context, with the id of the envelope the Handler was given.
\* Return contexts are numbered in the order in which they are invoked.
ReturnInvoke(r, id, o, e, h) ==
    /\ Running
    /\ rpc[r] = "idle"
    /\ \A q \in Returners : q < r => rpc[q] # "idle"
    /\ h # NoOne => (pc[h] = "send" /\ id = returnID[h] /\ ~InHandler(h))
    /\ args' = [args EXCEPT ![r] = [retID |-> id, out |-> o, errString |-> e]]
    /\ host' = [host EXCEPT ![r] = h]
    /\ reg' = [reg EXCEPT ![r] = id \in DOMAIN returns]
    /\ rpc' = [rpc EXCEPT ![r] = "rlock"]
    /\ UNCHANGED <<callVars, returns, chanVars, lockVars, rpcRetC, ok, panicked>>

\* line 71: r.mutex.RLock()
ReturnRLockNoWait(r) ==
    /\ Running
    /\ rpc[r] = "rlock"
    /\ mutexR' = mutexR \cup {r}
    /\ rpc' = [rpc EXCEPT ![r] = "lookup"]
    /\ UNCHANGED <<callVars, returns, chanVars, mutexW, args, host, reg, rpcRetC,
                   ok, panicked>>
ReturnRLock(r) ==
    /\ Running
    /\ rpc[r] = "rlock"
    /\ mutexW = NoOne
    /\ mutexR' = mutexR \cup {r}
    /\ rpc' = [rpc EXCEPT ![r] = "lookup"]
    /\ UNCHANGED <<callVars, returns, chanVars, mutexW, args, host, reg, rpcRetC,
                   ok, panicked>>

\* line 72: rpcRetC, ok := r.returns[retID]
LookupAny(m, id) ==
    IF m # <<>>
    THEN [ch |-> m[CHOOSE i \in DOMAIN m : \A j \in DOMAIN m : i <= j], ok |-> TRUE]
    ELSE [ch |-> NoChan, ok |-> FALSE]
Lookup(m, id) ==
    IF id \in DOMAIN m
    THEN [ch |-> m[id], ok |-> TRUE]
    ELSE [ch |-> NoChan, ok |-> FALSE]

ReturnLookupTake(r) ==
    /\ Running
    /\ rpc[r] = "lookup"
    /\ LET l == Lookup(returns, args[r].retID) IN
        /\ rpcRetC' = [rpcRetC EXCEPT ![r] = l.ch]
        /\ ok' = [ok EXCEPT ![r] = l.ok]
    /\ returns' = [i \in DOMAIN returns \ {args[r].retID} |-> returns[i]]
    /\ rpc' = [rpc EXCEPT ![r] = "runlock"]
    /\ UNCHANGED <<callVars, chanVars, lockVars, args, host, reg, panicked>>
ReturnLookup(r) ==
    /\ Running
    /\ rpc[r] = "lookup"
    /\ LET l == Lookup(returns, args[r].retID) IN
        /\ rpcRetC' = [rpcRetC EXCEPT ![r] = l.ch]
        /\ ok' = [ok EXCEPT ![r] = l.ok]
    /\ rpc' = [rpc EXCEPT ![r] = "runlock"]
    /\ UNCHANGED <<callVars, returns, chanVars, lockVars, args, host, reg, panicked>>

\* line 73: r.mutex.RUnlock()
ReturnRUnlock(r) ==
    /\ Running
    /\ rpc[r] = "runlock"
    /\ mutexR' = mutexR \ {r}
    /\ rpc' = [rpc EXCEPT ![r] = "check"]
    /\ UNCHANGED <<callVars, returns, chanVars, mutexW, args, host, reg, rpcRetC,
                   ok, panicked>>

\* lines 75-77: panic("no async call for " + retID) when the id is unknown
ReturnCheck(r) ==
    /\ Running
    /\ rpc[r] = "check"
    /\ IF ok[r]
       THEN /\ rpc' = [rpc EXCEPT ![r] = "chansend"]
            /\ panicked' = panicked
       ELSE /\ rpc' = [rpc EXCEPT ![r] = "panic"]
            /\ panicked' = "no async call for"
    /\ UNCHANGED <<callVars, returns, chanVars, lockVars, args, host, reg,
                   rpcRetC, ok>>

\* lines 79-87: rpcRetC <- rpcReturn{Output: out, Error: err}; a send on a
\* closed channel panics, a send on a full channel blocks
ReturnSendUnbuffered(r) ==
    /\ Running
    /\ rpc[r] = "chansend"
    /\ LET ch == rpcRetC[r] IN
        IF chanClosed[ch]
        THEN /\ panicked' = "send on closed channel"
             /\ rpc' = [rpc EXCEPT ![r] = "panic"]
             /\ chanBuf' = chanBuf
        ELSE /\ pc[ch] = "recv"
             /\ chanBuf[ch] = <<>>
             /\ chanBuf' = [chanBuf EXCEPT ![ch] = Append(@,
                    [Output |-> args[r].out,
                     Error |-> ErrorOf(args[r].errString),
                     by |-> r])]
             /\ rpc' = [rpc EXCEPT ![r] = "done"]
             /\ panicked' = panicked
    /\ UNCHANGED <<callVars, returns, chanClosed, lockVars, args, host, reg,
                   rpcRetC, ok>>
ReturnSend(r) ==
    /\ Running
    /\ rpc[r] = "chansend"
    /\ LET ch == rpcRetC[r] IN
        IF chanClosed[ch]
        THEN /\ panicked' = "send on closed channel"
             /\ rpc' = [rpc EXCEPT ![r] = "panic"]
             /\ chanBuf' = chanBuf
        ELSE /\ Len(chanBuf[ch]) < ChanCap
             /\ chanBuf' = [chanBuf EXCEPT ![ch] = Append(@,
                    [Output |-> args[r].out,
                     Error |-> ErrorOf(args[r].errString),
                     by |-> r])]
             /\ rpc' = [rpc EXCEPT ![r] = "done"]
             /\ panicked' = panicked
    /\ UNCHANGED <<callVars, returns, chanClosed, lockVars, args, host, reg,
                   rpcRetC, ok>>

Next ==
    \/ \E c \in Callers, in \in Inputs : CallStart(c, in)
    \/ \E c \in Callers : CallLock(c)
    \/ \E c \in Callers : CallInsert(c)
    \/ \E c \in Callers : CallUnlock(c)
    \/ \E c \in Callers, fails \in BOOLEAN : CallSend(c, fails)
    \/ \E c \in Callers : CallRecv(c)
    \/ \E c \in Callers : CallDelete(c)
    \/ \E c \in Callers : CallClose(c)
    \/ \E c \in Callers : CallResult(c)
    \/ \E r \in Returners, id \in IDs, m \in Replies, h \in Callers \cup {NoOne} :
          ReturnInvoke(r, id, m.out, m.errString, h)
    \/ \E r \in Returners : ReturnRLock(r)
    \/ \E r \in Returners : ReturnLookup(r)
    \/ \E r \in Returners : ReturnRUnlock(r)
    \/ \E r \in Returners : ReturnCheck(r)
    \/ \E r \in Returners : ReturnSend(r)

Spec == Init /\ [][Next]_vars

TypeOK ==
    /\ pc \in [Callers -> {"idle", "lock", "insert", "unlock", "send", "recv",
                           "lock2", "delete", "close", "unlock2", "result", "done"}]
    /\ rpc \in [Returners -> {"idle", "rlock", "lookup", "runlock", "check",
                              "chansend", "panic", "done"}]
    /\ DOMAIN returns \subseteq IDs
    /\ \A c \in Callers : Len(chanBuf[c]) <= ChanCap
    /\ mutexW \in Callers \cup {NoOne}
    /\ mutexR \subseteq Returners

\* ------------------------------------------------------------ properties ----

\* a Return for the id of Call c has been invoked
ReturnInvokedFor(c) ==
    \E r \in Returners : rpc[r] # "idle" /\ args[r].retID = returnID[c]

\* Call c has returned after consuming a result from its channel
Returned(c) == pc[c] = "done" /\ got[c]

\* the Handler returned nil for Call c
SendSucceeded(c) ==
    \/ pc[c] \in {"recv", "lock2", "delete", "close", "unlock2", "result"}
    \/ pc[c] = "done" /\ err[c] # MarshalErr /\ err[c] # HandlerErr

\* C1: the result a Call consumes was passed to a Return invoked with that
\* Call's own ReturnID, and it is that Return's output and error; no Call
\* consumes a reply addressed to another id.
C1_OwnReply ==
    \A c \in Callers :
        got[c] =>
            LET r == rpcRet[c].by IN
            /\ r \in Returners
            /\ args[r].retID = returnID[c]
            /\ rpcRet[c].Output = args[r].out
            /\ rpcRet[c].Error = ErrorOf(args[r].errString)

\* two concurrent Calls answered in the reverse of their order of issue
C1_Witness ==
    /\ got[1] /\ got[2]
    /\ rpcRet[1].by = 2
    /\ rpcRet[2].by = 1

\* C2: once Call has returned, on any return path, the registry has no entry
\* for its ReturnID.
C2_NoLeak ==
    \A c \in Callers :
        pc[c] = "done" => returnID[c] \notin DOMAIN returns

\* C3: a Return whose id has no registered entry does not abort the process.
C3_NoAbort ==
    \A r \in Returners :
        (rpc[r] \in {"chansend", "panic", "done"} /\ ~ok[r]) => Running

\* C4: when the Handler fails, Call returns that error without receiving
\* from its slot, and its registry entry is gone when it returns.
C4_SendFailureCleans ==
    \A c \in Callers :
        (pc[c] = "done" /\ err[c] = HandlerErr) =>
            /\ ~got[c]
            /\ returnID[c] \notin DOMAIN returns

\* C5: a reply with a non-empty error text makes Call fail with exactly that
\* text and leaves the output target untouched, whatever its output is.
C5_RemoteError ==
    \A c \in Callers :
        Returned(c) =>
            LET r == rpcRet[c].by IN
            (r \in Returners /\ args[r].errString # "") =>
                /\ err[c] = args[r].errString
                /\ out[c] = Untouched

\* a Call failed with the remote text although the reply carried an output
C5_Witness ==
    \E c \in Callers :
        /\ Returned(c)
        /\ rpcRet[c].by \in Returners
        /\ args[rpcRet[c].by].errString = "boom"
        /\ args[rpcRet[c].by].out = Quote(Hi)
        /\ err[c] = "boom"

\* C6: a reply without error text whose output is the encoding of a value v
\* makes Call succeed with the output target equal to v; an empty output
\* makes Call succeed with the output target as it was.
C6_RoundTrip ==
    \A c \in Callers :
        Returned(c) =>
            LET r == rpcRet[c].by IN
            (r \in Returners /\ args[r].errString = "") =>
                /\ args[r].out = EmptyOut =>
                      (err[c] = Nil /\ out[c] = Untouched)
                /\ \A v \in Values :
                      args[r].out = Quote(v) => (err[c] = Nil /\ out[c] = v)

\* one Call decoded a value and another succeeded on an empty output
C6_Witness ==
    \E c, d \in Callers :
        /\ Returned(c) /\ err[c] = Nil /\ out[c] = Yo
        /\ Returned(d) /\ err[d] = Nil /\ rpcRet[d].by \in Returners
        /\ args[rpcRet[d].by].out = EmptyOut
        /\ args[rpcRet[d].by].errString = ""

\* C7: every result a Return delivered into the slot of a Call is the one
\* that Call unblocked with: when the Call that consumed a result has
\* returned, no other delivered result was left behind.
C7_NoDroppedResult ==
    \A r \in Returners :
        (rpc[r] = "done" /\ Returned(rpcRetC[r])) => rpcRet[rpcRetC[r]].by = r

\* C8: a Call whose send succeeded gets past its receive only after a Return
\* for its id was invoked; while none was, it is at the receive, its slot is
\* empty and its entry is in the registry.
C8_BlocksUntilReturn ==
    \A c \in Callers :
        /\ got[c] => ReturnInvokedFor(c)
        /\ (SendSucceeded(c) /\ ~ReturnInvokedFor(c)) =>
              /\ pc[c] = "recv"
              /\ chanBuf[c] = <<>>
              /\ returnID[c] \in DOMAIN returns

\* a Call is blocked and every Return of the run was spent on other ids
C8_Witness ==
    \E c \in Callers :
        /\ pc[c] = "recv"
        /\ ~ReturnInvokedFor(c)
        /\ \A r \in Returners : rpc[r] = "done"

\* C9: from the moment the Handler runs with the envelope of id until the
\* Call cleans up, the registry maps id to that Call's slot.
C9_RegisteredBeforeSend ==
    \A c \in Callers :
        (\/ pc[c] = "send"
         \/ /\ call[c] \in sent
            /\ pc[c] \notin {"close", "unlock2", "result"}
            /\ ~Returned(c)) =>
            /\ returnID[c] \in DOMAIN returns
            /\ returns[returnID[c]] = c

\* a Return found the entry while the Handler was still running
C9_Witness ==
    \E c \in Callers, r \in Returners :
        /\ pc[c] = "send"
        /\ rpc[r] = "done"
        /\ rpcRetC[r] = c

\* C10: the lock is held only between a Lock/RLock and its Unlock/RUnlock:
\* never by a Call in the Handler or at its receive, never by a Return at
\* its channel send, so a suspended Call leaves the lock free for others.
C10_NoLockAcrossWait ==
    /\ \A c \in Callers :
          mutexW = c => pc[c] \in {"insert", "unlock", "delete", "close", "unlock2"}
    /\ \A r \in mutexR : rpc[r] \in {"lookup", "runlock"}
    /\ \A c \in Callers : pc[c] \in {"send", "recv"} => mutexW # c
    /\ \A r \in Returners : rpc[r] = "chansend" => r \notin mutexR

\* while one Call is suspended on its empty slot another Call holds the
\* lock, having registered its own entry
C10_Witness ==
    \E c, d \in Callers :
        /\ pc[c] = "recv" /\ chanBuf[c] = <<>>
        /\ pc[d] = "unlock" /\ mutexW = d

\* no step of any Call or Return can be taken any more
Quiescent == ~ENABLED Next

\* C11: a Call whose serialization failed has returned the encoding error
\* at once: its id was never registered, no channel of its own is in the
\* registry, and the Handler was never invoked with an envelope of its id.
C11_EncodingFailure ==
    \A c \in Callers :
        err[c] = MarshalErr =>
            /\ pc[c] = "done"
            /\ ~got[c]
            /\ returnID[c] \notin DOMAIN returns
            /\ \A i \in DOMAIN returns : returns[i] # c
            /\ \A e \in sent : e[3] # returnID[c]

\* a Call failed to encode while another Call's entry sits in the registry
C11_Witness ==
    \E c, d \in Callers :
        /\ pc[c] = "done" /\ err[c] = MarshalErr
        /\ returnID[d] \in DOMAIN returns
        /\ call[d] \in sent

\* the outcome the steps of a returned Call fix, taken in the order
\* serialize, send, error of the reply, decoding of the output
ExpectedOutcome(c) ==
    IF call[c] = <<>> THEN [err |-> MarshalErr, out |-> Untouched]
    ELSE IF ~got[c] THEN [err |-> HandlerErr, out |-> Untouched]
    ELSE LET a == args[rpcRet[c].by] IN
         IF a.errString # "" THEN [err |-> a.errString, out |-> Untouched]
         ELSE IF a.out = EmptyOut THEN [err |-> Nil, out |-> Untouched]
         ELSE IF \E v \in Values : a.out = Quote(v)
              THEN [err |-> Nil, out |-> CHOOSE v \in Values : a.out = Quote(v)]
              ELSE [err |-> UnmarshalErr, out |-> Untouched]

\* C12: a returned Call yields exactly the outcome fixed by the first step
\* that failed, in the order serialize, send, reply error, decode; it
\* succeeds only if none failed and the output was empty or decoded.
C12_OneOutcome ==
    \A c \in Callers :
        pc[c] = "done" =>
            /\ err[c] = ExpectedOutcome(c).err
            /\ out[c] = ExpectedOutcome(c).out
            /\ err[c] \in {Nil, MarshalErr, HandlerErr, UnmarshalErr} \cup (ErrTexts \ {""})
            /\ err[c] = Nil =>
                  /\ call[c] \in sent
                  /\ got[c]
                  /\ rpcRet[c].Error = Nil
                  /\ (rpcRet[c].Output = EmptyOut \/ IsJSONString(rpcRet[c].Output))

\* one Call ended with a decoding error and another with a send error
C12_Witness ==
    \E c, d \in Callers :
        /\ pc[c] = "done" /\ err[c] = UnmarshalErr
        /\ pc[d] = "done" /\ err[d] = HandlerErr

\* the contexts inside a write section and inside a read section of the lock
Writers == {c \in Callers : pc[c] \in {"insert", "unlock", "delete", "close", "unlock2"}}
Readers == {r \in Returners : rpc[r] \in {"lookup", "runlock"}}

\* C13: at most one Call is inside a section that inserts into or deletes
\* from the registry, and no Return looks an entry up while one is.
C13_RegistryExclusion ==
    /\ Cardinality(Writers) <= 1
    /\ Writers # {} => Readers = {}

\* the lookups of two Returns overlap
C13_Witness ==
    \E r, q \in Returners :
        r # q /\ rpc[r] = "lookup" /\ rpc[q] = "lookup"

\* what a step may do to the registry and to the slots
C14_Step ==
    /\ \A r \in Returners : rpc'[r] # rpc[r] => returns' = returns
    /\ \A id \in IDs :
          /\ (id \in DOMAIN returns /\ id \in DOMAIN returns') =>
                returns'[id] = returns[id]
          /\ (id \notin DOMAIN returns /\ id \in DOMAIN returns') =>
                \E c \in Callers : pc[c] = "insert" /\ returnID[c] = id
          /\ (id \in DOMAIN returns /\ id \notin DOMAIN returns') =>
                \E c \in Callers :
                    /\ returnID[c] = id
                    /\ returns[id] = c
                    /\ pc[c] = "delete" /\ pc'[c] = "close"
                    /\ got[c]
    /\ \A c \in Callers :
          /\ (pc[c] = "delete" /\ pc'[c] # pc[c]) => returnID[c] \in DOMAIN returns
          /\ (pc[c] = "close" /\ pc'[c] # pc[c]) => (~chanClosed[c] /\ chanClosed'[c])
          /\ chanClosed'[c] # chanClosed[c] => (pc[c] = "close" /\ got[c])

C15_EventuallyReturns ==
    Quiescent =>
        \A c \in Callers :
            (SendSucceeded(c) /\
             \E r \in Returners : reg[r] /\ args[r].retID = returnID[c]) =>
                Returned(c)

\* no other Return has sent into the slot that Return r is about to send into
FirstFor(r) ==
    \A q \in Returners : (q # r /\ rpc[q] = "done") => rpcRetC[q] # rpcRetC[r]

C17_NoSendOnClosed == panicked # "send on closed channel"

\* C18: when the process runs and nothing can run any more, no Return is
\* left at its send into a slot.
C18_ReturnCompletes ==
    (Running /\ Quiescent) => \A r \in Returners : rpc[r] # "chansend"
====
